---- MODULE Spec2Model ----
(***************************************************************************)
(* Kelime Bulmaca: a word-unscramble game.  The model covers the session   *)
(* component App (src/src/App.tsx), the letter shuffle `shuffle` of the    *)
(* same file and the puzzle provider generatePuzzle                        *)
(* (src/unnamed/part_001, imported as ./services/gemini).                  *)
(*                                                                         *)
(* Strings are sequences of one-character strings; JavaScript's 0-based    *)
(* indices i, j become i+1, j+1.  Time is counted in units of 1000 ms.     *)
(***************************************************************************)
EXTENDS Integers, Sequences, FiniteSets, Bags, TLC

VARIABLES
    words,      \* the Word Bank imported by generatePuzzle (never written)
    puzzle,     \* useState puzzle: 0 for null/undefined, else the index of the record in words
    scrambled,  \* useState scrambled
    userInput,  \* useState userInput
    loading,    \* useState loading
    score,      \* useState score
    feedback,   \* useState feedback: "none" stands for null
    showHint,   \* useState showHint
    difficulty, \* useState difficulty
    timers,     \* pending setTimeout callbacks: a bag of [kind, left, since, older]
    inflight,   \* calls of loadNewPuzzle suspended at `await generatePuzzle(...)`
    op,         \* history: the last handler that changed the session ("edit": the form)
    awards,     \* history: the calls of setScore since a suspended loadNewPuzzle last ended
    sWord,      \* shuffle: the argument `word` of the call being executed
    arr,        \* shuffle: the local array `arr`
    i,          \* shuffle: the loop index `i` (1-based), 0 when no call is running
    sPc,        \* shuffle: "idle", "loop" (inside the call) or "done" (returned arr)
    jWord,      \* submit check: puzzle.word of the comparison on line 68
    jInput,     \* submit check: userInput of the comparison on line 68
    jVerdict    \* submit check: the feedback the comparison leads to

sessionVars == <<words, puzzle, scrambled, userInput, loading, score, feedback,
                 showHint, difficulty, timers, inflight, op, awards>>
shuffleVars == <<sWord, arr, i, sPc>>
judgeVars == <<jWord, jInput, jVerdict>>
vars == <<sessionVars, shuffleVars, judgeVars>>

----------------------------------------------------------------------------
(* Bounds of the model *)

\* pending setTimeout callbacks at any time
MaxTimers == 2
\* loads started or still to be started by a pending success timer
MaxLoads == 2
\* correct submissions are explored while score is below this
ScoreCap == 20
\* longest word handed to shuffle in ShuffleSpec
MaxLen == 3
\* longest text typed in JudgeSpec
MaxInputLen == 3

(* Program constants *)

\* setTimeout(..., 2000), in units of 1000 ms
SuccessDelay == 2
\* setTimeout(..., 1000), in units of 1000 ms
ErrorDelay == 1
AwardEasy == 10
AwardMedium == 20
AwardHard == 30

Levels == {"easy", "medium", "hard"}
NoPuzzle == 0

----------------------------------------------------------------------------
(* Strings *)

\* all sequences over S of length 0..n
RECURSIVE Strings(_, _)
Strings(S, n) ==
    IF n = 0 THEN {<<>>}
    ELSE LET shorter == Strings(S, n - 1)
         IN  shorter \cup {Append(s, c) : s \in {t \in shorter : Len(t) = n - 1}, c \in S}

\* String.prototype.toUpperCase on one character of the modelled alphabet
UpperChar(c) ==
    CASE c = "a" -> "A"
      [] c = "b" -> "B"
      [] OTHER -> c

\* String.prototype.toUpperCase
toUpperCase(s) == [k \in 1..Len(s) |-> UpperChar(s[k])]

IsSpace(c) == c = " "

RECURSIVE TrimStart(_)
TrimStart(s) ==
    IF s # <<>> /\ IsSpace(Head(s)) THEN TrimStart(Tail(s)) ELSE s

RECURSIVE TrimEnd(_)
TrimEnd(s) ==
    IF s # <<>> /\ IsSpace(s[Len(s)]) THEN TrimEnd(SubSeq(s, 1, Len(s) - 1)) ELSE s

\* a trim that forgets the end of the text
trimStartOnly(s) == TrimStart(s)

\* String.prototype.trim
trim(s) == TrimEnd(TrimStart(s))

\* line 68: userInput.toUpperCase().trim() === puzzle.word
IsCorrect(input, word) == trim(toUpperCase(input)) = word

----------------------------------------------------------------------------
(* shuffle, as the set of values a call can return *)

\* [arr[i], arr[j]] = [arr[j], arr[i]]
Swap(a, m, n) == [a EXCEPT ![m] = a[n], ![n] = a[m]]

\* the for loop of shuffle from index m down: every array it can leave
RECURSIVE FisherYates(_, _)
FisherYates(a, m) ==
    IF m < 2 THEN {a}
    ELSE UNION {FisherYates(Swap(a, m, n), m - 1) : n \in 1..m}

\* the retry test with its length bound off by one
MustRetryLong(shuffled, word) == shuffled = word /\ Len(word) > 2

\* the retry test that also retries words of one letter
MustRetryNonEmpty(shuffled, word) == shuffled = word /\ Len(word) > 0

\* line 30: the condition under which shuffle calls itself again
MustRetry(shuffled, word) == shuffled = word /\ Len(word) > 1

\* the values shuffle(word) can return; empty when every attempt is retried,
\* and the recursion then ends in a RangeError (stack exhausted)
shuffle(word) == {s \in FisherYates(word, Len(word)) : ~MustRetry(s, word)}

----------------------------------------------------------------------------
(* The session *)

\* the Word Banks the session is explored with
WordAB == <<"A", "B">>
WordBA == <<"B", "A">>
WordBB == <<"B", "B">>
Banks == { <<>>, <<WordAB>>, <<WordBB>>, <<WordAB, WordBA>> }

\* the texts typed into the input field
Inputs == { <<" ", "a", "B">>, <<"b", "B">> }

\* an award that ignores the difficulty
AwardFlat(level) == AwardMedium

\* line 70: the award of a correct submission
Award(level) ==
    IF level = "easy" THEN AwardEasy
    ELSE IF level = "medium" THEN AwardMedium ELSE AwardHard

Timer(kind, left) == [kind |-> kind, left |-> left, since |-> "none", older |-> inflight]

\* the pending timers of one kind
TimersOf(kind) == [t \in {x \in BagToSet(timers) : x.kind = kind} |-> CopiesIn(t, timers)]

NumTimers(kind) == BagCardinality(TimersOf(kind))

\* history of the pending timers: a load has started since they were scheduled
NoteLoadStarted(t) == IF t.since = "none" THEN [t EXCEPT !.since = "started"] ELSE t
\* history of the pending timers when the k-th oldest suspended load ends in
\* its catch block: t.older counts the suspended loads that were started
\* before t was scheduled, and these are the t.older oldest ones
NoteLoadFailed(t, k) == IF k <= t.older THEN [t EXCEPT !.older = t.older - 1] ELSE t
\* history of the pending timers when the k-th oldest suspended load
\* completes: a timer is stale once a load started after it has completed
\* (and what else was suspended when it was scheduled no longer matters)
NoteLoadDone(t, k) ==
    IF k <= t.older
    THEN [t EXCEPT !.older = t.older - 1]
    ELSE [t EXCEPT !.since = "loaded", !.older = 0]

\* part_001 lines 9-12: generatePuzzle awaits nothing and returns a promise
\* that is already settled, so the continuation of line 50 runs as a microtask
\* of the task that called loadNewPuzzle. A task (an event handler, a timer
\* callback) and the passing of time come only when no call is suspended
TaskCanRun == inflight = 0

\* guard keeping inflight and the success timers bounded
RoomForLoad == inflight + NumTimers("success") < MaxLoads

idleShuffle == sWord = <<>> /\ arr = <<>> /\ i = 0 /\ sPc = "idle"
idleJudge == jWord = <<>> /\ jInput = <<>> /\ jVerdict = "idle"

\* lines 35-42 and the mount effect of lines 60-62: the first loadNewPuzzle
\* has run up to its await
Init ==
    /\ words \in Banks
    /\ puzzle = NoPuzzle
    /\ scrambled = <<>>
    /\ userInput = <<>>
    /\ loading = TRUE
    /\ score = 0
    /\ feedback = "none"
    /\ showHint = FALSE
    /\ difficulty = "medium"
    /\ timers = EmptyBag
    /\ inflight = 1
    /\ op = "mount"
    /\ awards = 0
    /\ idleShuffle
    /\ idleJudge

\* a loadNewPuzzle that does not clear the input field
StartLoadKeepsInput(timersNow) ==
    /\ loading' = TRUE
    /\ feedback' = "none"
    /\ userInput' = userInput
    /\ showHint' = FALSE
    /\ inflight' = inflight + 1
    /\ timers' = BagOfAll(LAMBDA t : IF t.since = "none" THEN [t EXCEPT !.since = "started"] ELSE t, timersNow)

\* a loadNewPuzzle that does not raise the loading flag
StartLoadNoFlag(timersNow) ==
    /\ loading' = loading
    /\ feedback' = "none"
    /\ userInput' = <<>>
    /\ showHint' = FALSE
    /\ inflight' = inflight + 1
    /\ timers' = BagOfAll(NoteLoadStarted, timersNow)

\* lines 45-50: loadNewPuzzle up to the await
StartLoad(timersNow) ==
    /\ loading' = TRUE
    /\ feedback' = "none"
    /\ userInput' = <<>>
    /\ showHint' = FALSE
    /\ inflight' = inflight + 1
    /\ timers' = BagOfAll(NoteLoadStarted, timersNow)

\* a provider that serves the first record on easy and the last on hard
generatePuzzleByLevel(level) ==
    IF words = <<>> THEN {}
    ELSE IF level = "easy" THEN {1}
    ELSE IF level = "hard" THEN {Len(words)}
    ELSE 1..Len(words)

\* part_001 lines 9-12: generatePuzzle takes no parameter, so the level it is
\* called with is dropped; the index is floor(random * words.length). The
\* value is the set of indices it can return (none for an empty Word Bank,
\* where words[0] is undefined)
generatePuzzle(level) == 1..Len(words)

\* lines 102-108: the refresh button, disabled while loading
RequestNewPuzzle ==
    /\ TaskCanRun
    /\ ~loading
    /\ RoomForLoad
    /\ StartLoad(timers)
    /\ op' = "refresh"
    /\ UNCHANGED <<shuffleVars, judgeVars, awards, words, puzzle, scrambled, score, difficulty>>

\* lines 50-57 with generatePuzzle (part_001 lines 9-12): the continuation of
\* loadNewPuzzle after the await, for an empty Word Bank: words[0] is
\* undefined, setPuzzle(undefined), data.word throws, finally setLoading(false)
LoadFailsEmpty ==
    /\ inflight > 0
    /\ words = <<>>
    /\ puzzle' = NoPuzzle
    /\ loading' = FALSE
    /\ inflight' = inflight - 1
    /\ \E k \in 1..inflight : timers' = BagOfAll(LAMBDA t : NoteLoadFailed(t, k), timers)
    /\ awards' = 0
    /\ op' = "loadFailed"
    /\ UNCHANGED <<shuffleVars, judgeVars, words, scrambled, userInput, score, feedback, showHint, difficulty>>

\* the same continuation when shuffle(data.word) never returns a value:
\* setPuzzle(data) has run, shuffle throws, setScrambled is skipped
LoadFailsShuffle ==
    /\ inflight > 0
    /\ \E randomIndex \in generatePuzzle(difficulty) :
        /\ shuffle(words[randomIndex]) = {}
        /\ puzzle' = randomIndex
    /\ loading' = FALSE
    /\ inflight' = inflight - 1
    /\ \E k \in 1..inflight : timers' = BagOfAll(LAMBDA t : NoteLoadFailed(t, k), timers)
    /\ awards' = 0
    /\ op' = "loadFailed"
    /\ UNCHANGED <<shuffleVars, judgeVars, words, scrambled, userInput, score, feedback, showHint, difficulty>>

\* the label of a load that completes: it is the automatic advance when the
\* last handler that ran was a live success timer's callback and no other
\* call of loadNewPuzzle is suspended
Loaded == IF op = "successTimer" /\ inflight = 1 THEN "advanced" ELSE "loaded"

\* a continuation that never shows the record on the screen twice in a row
LoadCompletesAvoidsRepeat ==
    /\ inflight > 0
    /\ \E randomIndex \in generatePuzzle(difficulty) :
        /\ Len(words) > 1 => randomIndex # puzzle
        /\ puzzle' = randomIndex
        /\ scrambled' \in shuffle(words[randomIndex])
    /\ loading' = FALSE
    /\ inflight' = inflight - 1
    /\ awards' = 0
    /\ \E k \in 1..inflight : timers' = BagOfAll(LAMBDA t : NoteLoadDone(t, k), timers)
    /\ op' = Loaded
    /\ UNCHANGED <<shuffleVars, judgeVars, words, userInput, score, feedback, showHint, difficulty>>

\* the same continuation when shuffle returns
LoadCompletes ==
    /\ inflight > 0
    /\ \E randomIndex \in generatePuzzle(difficulty) :
        /\ puzzle' = randomIndex
        /\ scrambled' \in shuffle(words[randomIndex])
    /\ loading' = FALSE
    /\ inflight' = inflight - 1
    /\ awards' = 0
    /\ \E k \in 1..inflight : timers' = BagOfAll(LAMBDA t : NoteLoadDone(t, k), timers)
    /\ op' = Loaded
    /\ UNCHANGED <<shuffleVars, judgeVars, words, userInput, score, feedback, showHint, difficulty>>

\* line 166: onChange of the input field (rendered only while not loading)
SetUserInput ==
    /\ TaskCanRun
    /\ ~loading
    /\ \E text \in Inputs \cup {<<>>} :
        /\ text # userInput
        /\ userInput' = text
    /\ op' = "edit"
    /\ UNCHANGED <<shuffleVars, judgeVars, awards, words, puzzle, scrambled, loading, score, feedback, showHint,
                   difficulty, timers, inflight>>

\* line 197: the hint button
ToggleHint ==
    /\ TaskCanRun
    /\ ~loading
    /\ showHint' = ~showHint
    /\ op' = "edit"
    /\ UNCHANGED <<shuffleVars, judgeVars, awards, words, puzzle, scrambled, userInput, loading, score, feedback,
                   difficulty, timers, inflight>>

\* line 238 with the effect of lines 58-62: a change of difficulty gives
\* loadNewPuzzle a new identity, so the effect calls it
SetDifficulty ==
    /\ TaskCanRun
    /\ ~loading
    /\ \E level \in Levels :
        /\ difficulty' = level
        /\ IF level # difficulty
           THEN /\ RoomForLoad
                /\ StartLoad(timers)
                /\ op' = "difficultyChanged"
           ELSE /\ UNCHANGED <<op, loading, feedback, userInput, showHint, inflight, timers>>
    /\ UNCHANGED <<shuffleVars, judgeVars, awards, words, puzzle, scrambled, score>>

\* lines 64-79: handleSubmit, the answer is right
SubmitCorrect ==
    /\ TaskCanRun
    /\ ~loading
    /\ puzzle # NoPuzzle
    /\ IsCorrect(userInput, words[puzzle])
    /\ score < ScoreCap
    /\ BagCardinality(timers) < MaxTimers
    /\ RoomForLoad
    /\ feedback' = "success"
    /\ score' = score + Award(difficulty)
    /\ awards' = awards + 1
    /\ timers' = timers (+) SetToBag({Timer("success", SuccessDelay)})
    /\ op' = "submitCorrect"
    /\ UNCHANGED <<shuffleVars, judgeVars, words, puzzle, scrambled, userInput, loading, showHint, difficulty,
                   inflight>>

\* a handleSubmit that takes points for a wrong answer
SubmitWrongPenalty ==
    /\ TaskCanRun
    /\ ~loading
    /\ puzzle # NoPuzzle
    /\ ~IsCorrect(userInput, words[puzzle])
    /\ BagCardinality(timers) < MaxTimers
    /\ feedback' = "error"
    /\ score' = score - AwardEasy
    /\ timers' = timers (+) SetToBag({Timer("error", ErrorDelay)})
    /\ op' = "submitWrong"
    /\ UNCHANGED <<shuffleVars, judgeVars, awards, words, puzzle, scrambled, userInput, loading,
                   showHint, difficulty, inflight>>

\* lines 64-68 and 80-83: handleSubmit, the answer is wrong
SubmitWrong ==
    /\ TaskCanRun
    /\ ~loading
    /\ puzzle # NoPuzzle
    /\ ~IsCorrect(userInput, words[puzzle])
    /\ BagCardinality(timers) < MaxTimers
    /\ feedback' = "error"
    /\ timers' = timers (+) SetToBag({Timer("error", ErrorDelay)})
    /\ op' = "submitWrong"
    /\ UNCHANGED <<shuffleVars, judgeVars, awards, words, puzzle, scrambled, userInput, loading, score, showHint,
                   difficulty, inflight>>

\* line 66: handleSubmit without a puzzle returns at once
SubmitNoPuzzle ==
    /\ TaskCanRun
    /\ ~loading
    /\ puzzle = NoPuzzle
    /\ UNCHANGED <<op, shuffleVars, judgeVars, awards, words, puzzle, scrambled, userInput, loading, score, feedback,
                   showHint, difficulty, timers, inflight>>

\* the label of a timer callback: stale when a load started after the timer
\* was scheduled has completed
Fired(kind, t) ==
    IF t.since = "loaded"
    THEN (IF kind = "success" THEN "staleSuccessTimer" ELSE "staleErrorTimer")
    ELSE (IF kind = "success" THEN "successTimer" ELSE "errorTimer")

\* lines 77-79: the callback of the success timer calls loadNewPuzzle
SuccessTimerFires ==
    \E t \in BagToSet(timers) :
        /\ t.kind = "success"
        /\ t.left = 0
        /\ TaskCanRun
        /\ StartLoad(timers (-) SetToBag({t}))
        /\ op' = Fired("success", t)
        /\ UNCHANGED <<shuffleVars, judgeVars, awards, words, puzzle, scrambled, score, difficulty>>

\* a callback of the error timer that leaves the feedback on the screen
ErrorTimerKeepsFeedback ==
    \E t \in BagToSet(timers) :
        /\ t.kind = "error"
        /\ t.left = 0
        /\ TaskCanRun
        /\ timers' = timers (-) SetToBag({t})
        /\ op' = Fired("error", t)
        /\ UNCHANGED <<shuffleVars, judgeVars, awards, words, puzzle, scrambled, userInput, loading, score, feedback,
                       showHint, difficulty, inflight>>

\* a callback of the error timer that also empties the input field
ErrorTimerClearsInput ==
    \E t \in BagToSet(timers) :
        /\ t.kind = "error"
        /\ t.left = 0
        /\ TaskCanRun
        /\ feedback' = "none"
        /\ userInput' = <<>>
        /\ timers' = timers (-) SetToBag({t})
        /\ op' = Fired("error", t)
        /\ UNCHANGED <<shuffleVars, judgeVars, awards, words, puzzle, scrambled, loading, score, showHint,
                       difficulty, inflight>>

\* line 82: the callback of the error timer
ErrorTimerFires ==
    \E t \in BagToSet(timers) :
        /\ t.kind = "error"
        /\ t.left = 0
        /\ TaskCanRun
        /\ feedback' = "none"
        /\ timers' = timers (-) SetToBag({t})
        /\ op' = Fired("error", t)
        /\ UNCHANGED <<shuffleVars, judgeVars, awards, words, puzzle, scrambled, userInput, loading, score, showHint,
                       difficulty, inflight>>

Elapse(t) == [t EXCEPT !.left = t.left - 1]

\* one unit of time passes; a timer that is due fires before time moves on
Tick ==
    /\ TaskCanRun
    /\ timers # EmptyBag
    /\ \A t \in BagToSet(timers) : t.left > 0
    /\ timers' = BagOfAll(Elapse, timers)
    /\ UNCHANGED <<shuffleVars, judgeVars, awards, op, words, puzzle, scrambled, userInput, loading, score, feedback,
                   showHint, difficulty, inflight>>

Next ==
    \/ RequestNewPuzzle
    \/ LoadFailsEmpty
    \/ LoadFailsShuffle
    \/ LoadCompletes
    \/ SetUserInput
    \/ ToggleHint
    \/ SetDifficulty
    \/ SubmitCorrect
    \/ SubmitWrong
    \/ SubmitNoPuzzle
    \/ SuccessTimerFires
    \/ ErrorTimerFires
    \/ Tick

Spec == Init /\ [][Next]_vars

\* timers run out and fire, and a provider call that was made settles
FairSpec ==
    /\ Spec
    /\ WF_vars(Tick)
    /\ WF_vars(SuccessTimerFires)
    /\ WF_vars(ErrorTimerFires)
    /\ WF_vars(LoadCompletes \/ LoadFailsShuffle \/ LoadFailsEmpty)

----------------------------------------------------------------------------
(* shuffle, step by step: one call on one word *)

Letters == {"A", "B", "C"}

idleSession ==
    /\ words = <<>>
    /\ puzzle = NoPuzzle
    /\ scrambled = <<>>
    /\ userInput = <<>>
    /\ loading = FALSE
    /\ score = 0
    /\ feedback = "none"
    /\ showHint = FALSE
    /\ difficulty = "medium"
    /\ timers = EmptyBag
    /\ inflight = 0
    /\ op = "none"
    /\ awards = 0

\* line 23: const arr = word.split(''), and the loop starts at the last index
ShuffleInit ==
    /\ idleSession
    /\ idleJudge
    /\ sWord \in Strings(Letters, MaxLen)
    /\ arr = sWord
    /\ i = Len(sWord)
    /\ sPc = "loop"

\* lines 24-27: one round of the loop at index m, with the random index n
ShuffleSwap(m, n) ==
    /\ sPc = "loop"
    /\ i = m
    /\ m >= 2
    /\ n \in 1..m
    /\ arr' = Swap(arr, m, n)
    /\ i' = m - 1
    /\ UNCHANGED <<sessionVars, judgeVars, sWord, sPc>>

\* line 30: the loop is over and the result is the word: return shuffle(word)
ShuffleRetry ==
    /\ sPc = "loop"
    /\ i < 2
    /\ MustRetry(arr, sWord)
    /\ arr' = sWord
    /\ i' = Len(sWord)
    /\ UNCHANGED <<sessionVars, judgeVars, sWord, sPc>>

\* line 31: return shuffled
ShuffleReturn ==
    /\ sPc = "loop"
    /\ i < 2
    /\ ~MustRetry(arr, sWord)
    /\ sPc' = "done"
    /\ UNCHANGED <<sessionVars, judgeVars, sWord, arr, i>>

ShuffleNext ==
    \/ \E m \in 2..MaxLen, n \in 1..MaxLen : ShuffleSwap(m, n)
    \/ ShuffleRetry
    \/ ShuffleReturn

ShuffleSpec == ShuffleInit /\ [][ShuffleNext]_vars

\* Math.random() is fair: an index that can be drawn again and again is drawn
FairShuffleSpec ==
    /\ ShuffleSpec
    /\ WF_vars(ShuffleRetry)
    /\ WF_vars(ShuffleReturn)
    /\ \A m \in 2..MaxLen : \A n \in 1..m : SF_vars(ShuffleSwap(m, n))

----------------------------------------------------------------------------
(* the comparison of handleSubmit on one word and one text *)

UpperLetters == {"A", "B"}
InputChars == {"a", "A", "b", "B", " "}

JudgeInit ==
    /\ idleSession
    /\ idleShuffle
    /\ jWord \in Strings(UpperLetters, MaxLen)
    /\ jInput \in Strings(InputChars, MaxInputLen)
    /\ jVerdict = "none"

\* lines 68-69: the comparison holds, setFeedback('success')
JudgeAccepts ==
    /\ jVerdict = "none"
    /\ IsCorrect(jInput, jWord)
    /\ jVerdict' = "success"
    /\ UNCHANGED <<sessionVars, shuffleVars, jWord, jInput>>

\* lines 80-81: the comparison fails, setFeedback('error')
JudgeRejects ==
    /\ jVerdict = "none"
    /\ ~IsCorrect(jInput, jWord)
    /\ jVerdict' = "error"
    /\ UNCHANGED <<sessionVars, shuffleVars, jWord, jInput>>

JudgeNext == JudgeAccepts \/ JudgeRejects

JudgeSpec == JudgeInit /\ [][JudgeNext]_vars

----------------------------------------------------------------------------
(* The claims *)

NumPending == BagCardinality(timers)

\* the step is a timer callback
TimerFiredStep == BagCardinality(timers') < NumPending

\* the step is handleSubmit with the right answer (it schedules its timer)
SubmitCorrectStep == op' = "submitCorrect" /\ BagCardinality(timers') > NumPending

CountOf(s, c) == Cardinality({k \in 1..Len(s) : s[k] = c})

CharsOf(s) == {s[k] : k \in 1..Len(s)}

\* s and t have the same length and the same multiset of characters
IsPermutationOf(s, t) ==
    /\ Len(s) = Len(t)
    /\ \A c \in CharsOf(s) \cup CharsOf(t) : CountOf(s, c) = CountOf(t, c)

\* the Word Bank is not empty and shuffle can scramble each of its words, so
\* that no load of the session fails
BankIsSound ==
    /\ words # <<>>
    /\ \A k \in 1..Len(words) : shuffle(words[k]) # {}

\* C1: a timer scheduled by a submission that fires after a later puzzle load
\* has completed leaves puzzle, scrambled, userInput, feedback and showHint
\* as they are and starts no load (stated for the sessions in which no load
\* fails).
C1_StaleTimerIsHarmless ==
    [][(BankIsSound /\ TimerFiredStep /\ op' \in {"staleSuccessTimer", "staleErrorTimer"})
        => UNCHANGED <<puzzle, scrambled, userInput, feedback, showHint, inflight>>]_vars

\* C2: a change of difficulty changes nothing but difficulty: the puzzle, the
\* scrambled form, the input, the feedback, the hint and the score stay, and
\* no load is started (stated for the sessions in which no load fails).
C2_DifficultyChangeIsLocal ==
    [][(BankIsSound /\ difficulty' # difficulty)
        => UNCHANGED <<puzzle, scrambled, userInput, feedback, showHint, score,
                       inflight>>]_vars

\* C3: every value shuffle returns for a word of length > 1 has the length and
\* the multiset of characters of the word and differs from the word.
C3_ShuffleIsDifferentPermutation ==
    (sPc = "done" /\ Len(sWord) > 1) => (IsPermutationOf(arr, sWord) /\ arr # sWord)

C3_Witness ==
    /\ sPc = "done"
    /\ sWord = <<"A", "B", "A">>
    /\ arr = <<"B", "A", "A">>

\* the step machine and the set-valued shuffle return the same values
ShuffleModelsAgree == sPc = "done" => arr \in shuffle(sWord)

\* C4: with fairly drawn indices, every call of shuffle returns.
C4_ShuffleReturns == <>(sPc = "done")

\* C5: whenever a puzzle is present, scrambled is a permutation of its word.
C5_ScrambledIsPermutation ==
    puzzle # NoPuzzle => IsPermutationOf(scrambled, words[puzzle])

\* C6: while the success timer of a correct submission is pending and no load
\* has been started since that submission, feedback is success (stated for
\* the sessions in which no load fails).
C6_SuccessShownUntilAdvance ==
    BankIsSound =>
        \A t \in BagToSet(timers) :
            (t.kind = "success" /\ t.since = "none") => feedback = "success"

\* the state right after a load has finished, ready for play with a puzzle and
\* with the input, the feedback and the hint cleared
FreshReady ==
    /\ op \in {"loaded", "advanced", "loadFailed"}
    /\ ~loading
    /\ puzzle # NoPuzzle
    /\ userInput = <<>>
    /\ feedback = "none"
    /\ showHint = FALSE

\* C7: every correct submission is eventually followed by a state right after
\* a load in which the session is ready with a puzzle, the input is empty,
\* feedback is none and the hint is hidden.
C7_CorrectLeadsToFreshReady == (op = "submitCorrect") ~> FreshReady

C7_Witness ==
    /\ FreshReady
    /\ score > 0
    /\ op = "advanced"
    /\ timers = EmptyBag
    /\ inflight = 0

\* C8: a correct submission adds to score exactly the award of the difficulty
\* in force when it is made: 10 for easy, 20 for medium, 30 for hard.
C8_AwardByDifficulty ==
    [][SubmitCorrectStep =>
        /\ difficulty = "easy" => score' = score + 10
        /\ difficulty = "medium" => score' = score + 20
        /\ difficulty = "hard" => score' = score + 30]_vars

C8_Witness ==
    /\ op = "submitCorrect"
    /\ difficulty = "hard"
    /\ score = 30
    /\ NumTimers("success") = 1

\* C9: no step lowers score, and only a correct submission changes it.
C9_ScoreMonotone ==
    [][score' >= score /\ (score' # score => SubmitCorrectStep)]_vars

C9_Witness ==
    /\ score = 40
    /\ op = "submitWrong"
    /\ feedback = "error"

LowerChar(c) ==
    CASE c = "A" -> "a"
      [] c = "B" -> "b"
      [] OTHER -> c

\* text is the word in mixed case between a spaces in front and b behind
IsVariantAt(text, word, a, b) ==
    /\ a + Len(word) + b = Len(text)
    /\ \A k \in 1..a : text[k] = " "
    /\ \A k \in 1..b : text[a + Len(word) + k] = " "
    /\ \A k \in 1..Len(word) : text[a + k] \in {word[k], LowerChar(word[k])}

IsVariant(text, word) ==
    \E a \in 0..Len(text), b \in 0..Len(text) : IsVariantAt(text, word, a, b)

\* C10: a submission is accepted exactly when the text is the puzzle's
\* uppercase word in any mix of cases with any spaces around it.
C10_AcceptedIffVariant ==
    jVerdict \in {"success", "error"}
        => (jVerdict = "success" <=> IsVariant(jInput, jWord))

C10_Witness ==
    /\ jVerdict = "success"
    /\ jWord = <<"A", "B">>
    /\ jInput = <<"a", "B", " ">>

\* the step of a wrong submission, and the step of an error timer's callback
SubmitWrongStep == op' = "submitWrong" /\ BagCardinality(timers') > NumPending
ErrorTimerStep == TimerFiredStep /\ op' \in {"errorTimer", "staleErrorTimer"}

\* C11: a wrong submission sets feedback to error and the expiry of its
\* timer sets feedback to none; neither step changes userInput, the puzzle,
\* the scrambled form, the score, the hint or the loading flag, so the
\* session stays ready on the same puzzle
C11_WrongSubmissionTouchesOnlyFeedback ==
    [][/\ SubmitWrongStep =>
            /\ feedback' = "error"
            /\ ~loading'
            /\ UNCHANGED <<userInput, puzzle, scrambled, score, showHint, loading, words, difficulty>>
       /\ ErrorTimerStep =>
            /\ feedback' = "none"
            /\ UNCHANGED <<userInput, puzzle, scrambled, score, showHint, loading, words, difficulty>>]_vars

\* the error timer of a wrong answer has expired: the answer is still in the
\* field, the puzzle is still there, and the feedback is gone
C11_Witness ==
    /\ op = "errorTimer"
    /\ ~loading
    /\ puzzle # NoPuzzle
    /\ userInput # <<>>
    /\ ~IsCorrect(userInput, words[puzzle])
    /\ showHint
    /\ feedback = "none"
    /\ timers = EmptyBag

\* lines 114 and 125: the spinner while loading, the game view (letters,
\* input field, submit button) otherwise; the component has no other view
View == IF loading THEN "spinner" ELSE "game"

\* lines 66 and 161: handleSubmit acts when the form is rendered and a puzzle
\* is set
SubmitAccepted == ~loading /\ puzzle # NoPuzzle

\* the step in which a suspended loadNewPuzzle ends in its catch block, and
\* the step in which a call of loadNewPuzzle starts
LoadFailedStep == op' = "loadFailed" /\ inflight' < inflight
LoadStartedStep == inflight' > inflight

\* C12: a load that fails ends in a state that is not the playable game view:
\* no puzzle and no scrambled form (new or previous) is there, a submission is
\* not accepted, and score and feedback are what they were before the load
\* was attempted (neither its start nor its end changes them)
C12_FailedLoadEndsInErrorState ==
    [][/\ LoadFailedStep =>
            /\ View' # "game"
            /\ puzzle' = NoPuzzle
            /\ scrambled' = <<>>
            /\ ~SubmitAccepted'
            /\ UNCHANGED <<score, feedback>>
       /\ (LoadStartedStep /\ ~BankIsSound) => UNCHANGED <<score, feedback>>]_vars

\* C13: feedback is transient: from every state in which feedback is success
\* or error a state with no feedback is reached, whatever the player does or
\* does not do, given that pending timers fire and pending loads settle.
\* (feedback # "none") ~> (feedback = "none") is [](P => <>~P), which is the
\* same as []<>~P: at every point a state with no feedback is still to come
C13_FeedbackIsTransient == []<>(feedback = "none")

\* the success feedback has just been taken down by the automatic advance
C13_Witness ==
    /\ op = "successTimer"
    /\ feedback = "none"
    /\ loading
    /\ score > 0
    /\ timers = EmptyBag

\* the load started by a live success timer is the only one suspended
AdvanceUnderWay == op = "successTimer" /\ inflight = 1 /\ puzzle # NoPuzzle /\ BankIsSound

\* the step in which that load completes
AdvanceStep == AdvanceUnderWay /\ op' = "advanced"

\* C14 as stated: the automatic advance after a correct submission loads a
\* record other than the one just solved
C14_AdvanceLoadsDifferentRecord == [][AdvanceStep => puzzle' # puzzle]_vars

\* C14: the automatic advance draws from the whole Word Bank without regard
\* to the record just solved: every record can be the one loaded, the record
\* just solved among them
C14_AdvanceMayRepeat ==
    AdvanceUnderWay =>
        /\ ENABLED (LoadCompletes /\ puzzle' = puzzle)
        /\ \A k \in 1..Len(words) : ENABLED (LoadCompletes /\ puzzle' = k)

\* the advance has loaded the only record of the Word Bank, the one that was
\* just solved, once more
C14_Witness ==
    /\ op = "advanced"
    /\ words = <<WordAB>>
    /\ puzzle = 1
    /\ scrambled = WordBA
    /\ ~loading
    /\ score = AwardMedium

\* C15: for a word of length 0 or 1 shuffle returns the word itself: it is the
\* only value shuffle can return, the call returns without a retry, and the
\* value returned is the word
C15_ShortWordReturnsItself ==
    (sPc # "idle" /\ Len(sWord) <= 1) =>
        /\ shuffle(sWord) = {sWord}
        /\ arr = sWord
        /\ sPc = "loop" => (ENABLED ShuffleReturn /\ ~ENABLED ShuffleRetry)

C15_Witness ==
    /\ sPc = "done"
    /\ sWord = <<"C">>
    /\ arr = <<"C">>

\* the step in which a suspended load sets the puzzle
LoadSetsPuzzle == LoadCompletes \/ LoadFailsShuffle

\* the records a suspended load can set as the puzzle
Yield == {k \in 0..Len(words) : ENABLED (LoadSetsPuzzle /\ puzzle' = k)}

\* C16: selection does not depend on the difficulty: for a non-empty Word
\* Bank the provider can return each record of the bank and nothing else at
\* each of easy, medium and hard, and the records a suspended load can set are
\* exactly the records of the bank whatever the difficulty in force
C16_SelectionIgnoresDifficulty ==
    (inflight > 0 /\ words # <<>>) =>
        /\ \A level \in Levels : generatePuzzle(level) = 1..Len(words)
        /\ Yield = 1..Len(words)

\* on easy, a load has set the second record of a bank of two
C16_Witness ==
    /\ op = "loaded"
    /\ difficulty = "easy"
    /\ words = <<WordAB, WordBA>>
    /\ puzzle = 2
    /\ inflight = 0
    /\ timers = EmptyBag

\* C17: a loaded puzzle is scored at most once: between the end of one load
\* and the end of the next, score is raised by at most one award (in sessions
\* in which no load fails)
C17_ScoredAtMostOnce == BankIsSound => awards <= 1

\* the step in which a suspended call of loadNewPuzzle ends
LoadEnds == LoadCompletes \/ LoadFailsShuffle \/ LoadFailsEmpty

\* C18: the loading flag is false only if no call of loadNewPuzzle is
\* suspended between its start and its end, so a load that ends (and sets the
\* puzzle and the scrambled form) does so while the spinner is shown, never
\* while the game view is; this for loads started on mount, by the refresh
\* button, by a change of difficulty and by success timers, live or stale
C18_ReadyMeansNoLoadInFlight ==
    /\ ~loading => inflight = 0
    /\ ENABLED LoadEnds => loading

\* a success timer outlived a load started by a change of difficulty and has
\* started one more load, which is suspended under the spinner
C18_Witness ==
    /\ op = "staleSuccessTimer"
    /\ difficulty = "easy"
    /\ loading
    /\ inflight = 1
    /\ puzzle # NoPuzzle
    /\ score > 0

====
